---- MODULE Spec2Model ----
(***************************************************************************)
(* A model of tools/obr.py (OpenTabulate / OpenBusinessRepository): the    *)
(* metadata validator Source.parse, the encoding detector, the label map   *)
(* builders, the CSV structural repair and the CSV and XML transformers,   *)
(* driven in the order of DataProcess.process.                             *)
(*                                                                         *)
(* Text is modelled as a sequence of one-character strings, so that the    *)
(* regular expressions of _quick_scrub and the split/join of the path      *)
(* rules are computed, not assumed.  Tag names and keys of the metadata    *)
(* document are TLA+ strings.  A JSON value is a record [t, v] with t its  *)
(* JSON type.                                                              *)
(***************************************************************************)
EXTENDS Integers, Sequences, FiniteSets, TLC

VARIABLES
    metadata,        \* Source.metadata: the metadata document
    rawpath, dirtypath, cleanpath, label_map,    \* the other fields of Source
    fs,              \* the dataset's files: raw, dirty, dirty + '-temp', clean
    address_parser,  \* the address parsing function given to DataProcess
    call,            \* the method called last
    pc,              \* how far the dataset got, "failed" once a call raised
    err,             \* the kind of the exception that call raised, or "none"
    enc,             \* what char_encode_check returned last
    stdout           \* what was printed

vars == <<metadata, rawpath, dirtypath, cleanpath, label_map, fs,
          address_parser, call, pc, err, enc, stdout>>

(***************************************************************************)
(* Bounds of the model.                                                    *)
(***************************************************************************)
MaxFileLen == 5
MaxRecords == 2
MaxEntryLen == 5

(***************************************************************************)
(* Generic helpers.                                                        *)
(***************************************************************************)
Restrict(f, S) == [k \in S |-> f[k]]

Range(s) == {s[i] : i \in 1..Len(s)}

Has(d, k) == k \in DOMAIN d

RECURSIVE SeqsUpTo(_, _)
SeqsUpTo(S, n) ==
    IF n = 0 THEN {<<>>}
    ELSE LET shorter == SeqsUpTo(S, n - 1)
         IN  shorter \cup {Append(s, x) : s \in {t \in shorter : Len(t) = n - 1}, x \in S}

RECURSIVE Flatten(_)
Flatten(ss) == IF ss = <<>> THEN <<>> ELSE Head(ss) \o Flatten(Tail(ss))

(***************************************************************************)
(* JSON values of the metadata document (json.load).                       *)
(***************************************************************************)
JStr(s)  == [t |-> "string", v |-> s]
JNum     == [t |-> "number", v |-> <<>>]
JList(l) == [t |-> "array",  v |-> l]
JObj(f)  == [t |-> "object", v |-> f]
JAbsent  == [t |-> "absent", v |-> <<>>]

IsStr(x)  == x.t = "string"
IsDict(x) == x.t = "object"
IsList(x) == x.t = "array"

\* the document with the tags whose option is JAbsent left out
Doc(full) == Restrict(full, {k \in DOMAIN full : full[k].t # "absent"})

(***************************************************************************)
(* Class attributes of Algorithm.                                          *)
(***************************************************************************)
FIELD_LABEL ==
    <<"bus_name", "trade_name", "bus_type", "bus_no", "bus_desc",
      "lic_type", "lic_no", "bus_start_date", "bus_cease_date", "active",
      "full_addr",
      "house_number", "road", "postcode", "unit", "city", "prov", "country",
      "phone", "fax", "email", "website", "tollfree",
      "comdist", "region",
      "longitude",
      "latitude",
      "no_employed", "no_seasonal_emp", "no_full_emp", "no_part_emp", "emp_range",
      "home_bus", "munic_bus", "nonres_bus",
      "exports", "exp_cn_1", "exp_cn_2", "exp_cn_3",
      "naics_2", "naics_3", "naics_4", "naics_5", "naics_6",
      "naics_desc",
      "qc_cae_1", "qc_cae_desc_1", "qc_cae_2", "qc_cae_desc_2",
      "facebook", "twitter", "linkedin", "youtube", "instagram">>

ADDR_FIELD_LABEL ==
    <<"unit", "house_number", "road", "city", "prov", "country", "postcode">>

FORCE_LABEL == <<"city", "prov", "country">>

ENCODING_LIST == << <<"utf-8">>, <<"cp1252">>, <<"cp437">> >>

_ADDR_LABEL_TO_POSTAL ==
    [house_number |-> "house_number", road |-> "road", unit |-> "unit",
     city |-> "city", prov |-> "state", country |-> "country",
     postcode |-> "postcode"]

(***************************************************************************)
(* Text constants.                                                         *)
(***************************************************************************)
CSV == <<"c", "s", "v">>
XML == <<"x", "m", "l">>

NoPath == <<>>
RawRoot == <<"./pddir/raw/">>
DirtyRoot == <<"./pddir/dirty/">>
CleanRoot == <<"./pddir/clean/">>
DirtySuffix == <<"-dirty.csv">>
CleanSuffix == <<"-clean.csv">>

(***************************************************************************)
(* str.split('.') and '.'.join(...) on character sequences.                *)
(***************************************************************************)
RECURSIVE SplitDot(_)
SplitDot(s) ==
    IF s = <<>> THEN << <<>> >>
    ELSE LET rest == SplitDot(Tail(s))
         IN  IF Head(s) = "."
             THEN << <<>> >> \o rest
             ELSE << <<Head(s)>> \o Head(rest) >> \o Tail(rest)

RECURSIVE JoinDot(_)
JoinDot(parts) ==
    IF parts = <<>> THEN <<>>
    ELSE IF Len(parts) = 1 THEN Head(parts)
    ELSE Head(parts) \o <<".">> \o JoinDot(Tail(parts))

\* a faulty variant of StripExtension: everything from the first dot on is dropped
StripExtensionFirstDot(filename) == Head(SplitDot(filename))

\* Source.parse, lines 819-822: the name the dirty and clean paths are built on
StripExtension(filename) ==
    IF Len(SplitDot(filename)) = 1
    THEN filename
    ELSE JoinDot(SubSeq(SplitDot(filename), 1, Len(SplitDot(filename)) - 1))

(***************************************************************************)
(* Source.parse: the checks, in the order of the code.  The result is the  *)
(* kind of the exception raised, or "ok".                                  *)
(***************************************************************************)
\* a faulty variant of AddressCheck: a non-object address reported as a bad value
AddressCheckWrongKind(md) ==
    IF Has(md["info"].v, "address")
    THEN IF ~IsDict(md["info"].v["address"]) THEN "ValueError"
         ELSE IF \E i \in DOMAIN md["info"].v["address"].v :
                     i \notin Range(ADDR_FIELD_LABEL)
              THEN "ValueError"
              ELSE "ok"
    ELSE "ok"

\* lines 797-803: address is an object with valid tags
AddressCheck(md) ==
    IF Has(md["info"].v, "address")
    THEN IF ~IsDict(md["info"].v["address"]) THEN "TypeError"
         ELSE IF \E i \in DOMAIN md["info"].v["address"].v :
                     i \notin Range(ADDR_FIELD_LABEL)
              THEN "ValueError"
              ELSE "ok"
    ELSE "ok"

\* a faulty variant of ForceCheck: the overlap with info.address is not looked at
ForceCheckNoOverlap(md) ==
    IF Has(md, "force")
    THEN IF ~IsDict(md["force"]) THEN "TypeError"
         ELSE IF \E i \in DOMAIN md["force"].v : i \notin Range(FORCE_LABEL)
              THEN "ValueError"
              ELSE "ok"
    ELSE "ok"

\* lines 806-814: force is an object with valid tags, none of them in address
ForceCheck(md) ==
    IF Has(md, "force")
    THEN IF ~IsDict(md["force"]) THEN "TypeError"
         ELSE IF \E i \in DOMAIN md["force"].v :
                     \/ i \notin Range(FORCE_LABEL)
                     \/ /\ Has(md["info"].v, "address")
                        /\ Has(md["info"].v["address"].v, i)
              THEN "ValueError"
              ELSE "ok"
    ELSE "ok"

SourceParseCheck(md) ==
    IF ~Has(md, "format") THEN "LookupError"
    ELSE IF ~Has(md, "file") THEN "LookupError"
    ELSE IF ~Has(md, "info") THEN "LookupError"
    ELSE IF ~IsStr(md["format"]) THEN "TypeError"
    ELSE IF ~IsStr(md["file"]) THEN "TypeError"
    ELSE IF ~IsDict(md["info"]) THEN "TypeError"
    ELSE IF md["format"].v # XML /\ md["format"].v # CSV THEN "ValueError"
    ELSE IF md["format"].v # CSV /\ ~Has(md, "header") THEN "LookupError"
    ELSE IF md["format"].v # CSV /\ Has(md, "header") /\ ~IsStr(md["header"])
         THEN "TypeError"
    ELSE IF Has(md, "url") /\ ~IsStr(md["url"]) THEN "TypeError"
    ELSE IF Has(md["info"].v, "address") /\ Has(md["info"].v, "full_addr")
         THEN "ValueError"
    ELSE IF AddressCheck(md) # "ok" THEN AddressCheck(md)
    ELSE ForceCheck(md)

(***************************************************************************)
(* Source.parse as an operation on the Source.  Calling it on a validated  *)
(* Source again runs the same checks and assigns the same paths.           *)
(***************************************************************************)
SourceParse ==
    /\ pc \in {"constructed", "validated"}
    /\ LET kind == SourceParseCheck(metadata)
       IN  IF kind = "ok"
           THEN /\ rawpath' = RawRoot \o metadata["file"].v
                /\ dirtypath' = DirtyRoot \o StripExtension(metadata["file"].v) \o DirtySuffix
                /\ cleanpath' = CleanRoot \o StripExtension(metadata["file"].v) \o CleanSuffix
                /\ pc' = "validated"
                /\ err' = "none"
           ELSE /\ pc' = "failed"
                /\ err' = kind
                /\ UNCHANGED <<rawpath, dirtypath, cleanpath>>
    /\ call' = "Source.parse"
    /\ UNCHANGED <<metadata, label_map, fs, address_parser, enc, stdout>>

(***************************************************************************)
(* Files, and the Source right after Source.__init__ (lines 737-743).      *)
(***************************************************************************)
NoFile == [kind |-> "absent", header |-> <<>>, rows |-> <<>>, decodes |-> {}]

\* label_map = None
NoLabelMap == [built |-> FALSE, items |-> <<>>]

NoFiles == [raw |-> NoFile, dirty |-> NoFile, temp |-> NoFile, clean |-> NoFile]

Constructed ==
    /\ pc = "constructed"
    /\ err = "none"
    /\ rawpath = NoPath
    /\ dirtypath = NoPath
    /\ cleanpath = NoPath
    /\ label_map = NoLabelMap
    /\ call = "Source.__init__"
    /\ enc = <<>>
    /\ stdout = <<>>

(***************************************************************************)
(* The validator on its own: metadata documents in which every tag the     *)
(* validator reads is absent, of the wrong type, invalid or valid, and     *)
(* valid documents over every file name up to MaxFileLen characters.       *)
(***************************************************************************)
FormatOpts == {JAbsent, JNum, JStr(CSV), JStr(XML), JStr(<<"j", "s", "o", "n">>)}
FileOpts   == {JAbsent, JNum, JStr(<<"a", ".", "b">>)}
HeaderOpts == {JAbsent, JNum, JStr(<<"r">>)}
UrlOpts    == {JAbsent, JNum, JStr(<<"u">>)}

AddressObjsV ==
    {Restrict([city |-> JStr(<<"C">>), zip |-> JStr(<<"Z">>)], S) :
        S \in SUBSET {"city", "zip"}}

InfoObjsV ==
    {Doc([bus_name |-> b, full_addr |-> f, address |-> a]) :
        b \in {JAbsent, JStr(<<"N">>)},
        f \in {JAbsent, JStr(<<"A">>)},
        a \in {JAbsent, JNum} \cup {JObj(o) : o \in AddressObjsV}}

ForceObjsV ==
    {Restrict([city |-> JStr(<<"T">>), country |-> JStr(<<"K">>),
               road |-> JStr(<<"R">>)], S) :
        S \in SUBSET {"city", "country", "road"}}

TagDocs ==
    {Doc([format |-> fo, file |-> fi, info |-> i, header |-> h, url |-> u,
          force |-> fc]) :
        fo \in FormatOpts, fi \in FileOpts,
        i \in {JAbsent, JNum} \cup {JObj(o) : o \in InfoObjsV},
        h \in HeaderOpts, u \in UrlOpts,
        fc \in {JAbsent, JNum} \cup {JObj(o) : o \in ForceObjsV}}

FileNames == SeqsUpTo({"a", "b", "."}, MaxFileLen)

FileDocs ==
    {[format |-> JStr(CSV), file |-> JStr(n), info |-> JObj(<<>>)] :
        n \in FileNames}

InitValidate ==
    /\ metadata \in TagDocs \cup FileDocs
    /\ Constructed
    /\ fs = NoFiles
    /\ address_parser = "none"

SpecValidate == InitValidate /\ [][SourceParse]_vars

(***************************************************************************)
(* The rules of the metadata document, stated one by one.                  *)
(***************************************************************************)
InfoObj(md) == Has(md, "info") /\ IsDict(md["info"])
AddrObj(md) ==
    InfoObj(md) /\ Has(md["info"].v, "address") /\ IsDict(md["info"].v["address"])
ForceObj(md) == Has(md, "force") /\ IsDict(md["force"])
FormatStr(md) == Has(md, "format") /\ IsStr(md["format"])

RuleRequired(md) ==
    /\ FormatStr(md)
    /\ Has(md, "file") /\ IsStr(md["file"])
    /\ InfoObj(md)
RuleFormat(md) == FormatStr(md) => md["format"].v \in {CSV, XML}
RuleHeader(md) ==
    (FormatStr(md) /\ md["format"].v = XML) => (Has(md, "header") /\ IsStr(md["header"]))
RuleUrl(md) == Has(md, "url") => IsStr(md["url"])
RuleNotBoth(md) ==
    InfoObj(md) => ~(Has(md["info"].v, "address") /\ Has(md["info"].v, "full_addr"))
RuleAddress(md) ==
    (InfoObj(md) /\ Has(md["info"].v, "address")) =>
        /\ IsDict(md["info"].v["address"])
        /\ DOMAIN md["info"].v["address"].v \subseteq Range(ADDR_FIELD_LABEL)
RuleForceKeys(md) ==
    ForceObj(md) =>
        /\ DOMAIN md["force"].v \subseteq {"city", "prov", "country"}
        /\ AddrObj(md) => DOMAIN md["force"].v \cap DOMAIN md["info"].v["address"].v = {}
RuleForceType(md) == Has(md, "force") => IsDict(md["force"])

RulesOfClaim(md) ==
    /\ RuleRequired(md) /\ RuleFormat(md) /\ RuleHeader(md) /\ RuleUrl(md)
    /\ RuleNotBoth(md) /\ RuleAddress(md) /\ RuleForceKeys(md)

Decided == pc \in {"validated", "failed"}

\* C1 as stated: Source.parse accepts a metadata document if and only if the
\* rules of section 4.1 hold, where the only rule about force is the one on the
\* keys of a force object.
C1_AcceptsIffRulesAsStated ==
    Decided => (pc = "validated" <=> RulesOfClaim(metadata))

\* C1 (amended): Source.parse accepts a metadata document if and only if the
\* rules of section 4.1 hold and force, if present, is an object.
C1_AcceptsIffRules ==
    Decided => (pc = "validated" <=> (RulesOfClaim(metadata) /\ RuleForceType(metadata)))

\* a document with a force object and an address object on disjoint valid keys
\* was accepted
C1_Witness ==
    /\ pc = "validated"
    /\ ForceObj(metadata) /\ AddrObj(metadata)
    /\ DOMAIN metadata["force"].v # {}
    /\ DOMAIN metadata["info"].v["address"].v # {}

(***************************************************************************)
(* The single violations C2 lists, each with the kind of error it names.   *)
(***************************************************************************)
Violations(md) ==
    {v \in {"M_format", "M_file", "M_info", "M_header",
            "T_format", "T_file", "T_info", "T_header", "T_url", "T_address",
            "T_force",
            "V_format", "V_both", "V_addrkey", "V_forcekey", "V_overlap"} :
        CASE v = "M_format" -> ~Has(md, "format")
          [] v = "M_file"   -> ~Has(md, "file")
          [] v = "M_info"   -> ~Has(md, "info")
          [] v = "M_header" -> FormatStr(md) /\ md["format"].v # CSV /\ ~Has(md, "header")
          [] v = "T_format" -> Has(md, "format") /\ ~IsStr(md["format"])
          [] v = "T_file"   -> Has(md, "file") /\ ~IsStr(md["file"])
          [] v = "T_info"   -> Has(md, "info") /\ ~IsDict(md["info"])
          [] v = "T_header" -> /\ FormatStr(md) /\ md["format"].v # CSV
                               /\ Has(md, "header") /\ ~IsStr(md["header"])
          [] v = "T_url"    -> Has(md, "url") /\ ~IsStr(md["url"])
          [] v = "T_address" -> /\ InfoObj(md) /\ Has(md["info"].v, "address")
                                /\ ~IsDict(md["info"].v["address"])
          [] v = "T_force"  -> Has(md, "force") /\ ~IsDict(md["force"])
          [] v = "V_format" -> FormatStr(md) /\ md["format"].v \notin {CSV, XML}
          [] v = "V_both"   -> /\ InfoObj(md) /\ Has(md["info"].v, "address")
                               /\ Has(md["info"].v, "full_addr")
          [] v = "V_addrkey" -> /\ AddrObj(md)
                                /\ ~(DOMAIN md["info"].v["address"].v
                                        \subseteq Range(ADDR_FIELD_LABEL))
          [] v = "V_forcekey" -> /\ ForceObj(md)
                                 /\ ~(DOMAIN md["force"].v \subseteq {"city", "prov", "country"})
          [] v = "V_overlap" -> /\ ForceObj(md) /\ AddrObj(md)
                                /\ DOMAIN md["force"].v
                                     \cap DOMAIN md["info"].v["address"].v # {}}

KindOf(v) ==
    IF v \in {"M_format", "M_file", "M_info", "M_header"} THEN "LookupError"
    ELSE IF v \in {"T_format", "T_file", "T_info", "T_header", "T_url",
                   "T_address", "T_force"} THEN "TypeError"
    ELSE "ValueError"

\* C2: a document that violates exactly one rule is rejected with the kind of
\* error of that rule (missing tag: LookupError, wrong type: TypeError, invalid
\* value: ValueError), and no other kind of error escapes Source.parse.
C2_ErrorKindByRule ==
    /\ (Decided /\ Cardinality(Violations(metadata)) = 1) =>
           /\ pc = "failed"
           /\ \A v \in Violations(metadata) : err = KindOf(v)
    /\ pc = "failed" => err \in {"LookupError", "TypeError", "ValueError"}

\* a document whose only violation is an address tag that is not an object was
\* rejected
C2_Witness ==
    /\ pc = "failed"
    /\ Violations(metadata) = {"T_address"}

(***************************************************************************)
(* The base name of C3: the file name up to its last dot, the whole name   *)
(* when it has no dot.                                                     *)
(***************************************************************************)
DotPositions(n) == {i \in 1..Len(n) : n[i] = "."}
LastDot(n) == CHOOSE i \in DotPositions(n) : \A j \in DotPositions(n) : j <= i
BaseName(n) == IF DotPositions(n) = {} THEN n ELSE SubSeq(n, 1, LastDot(n) - 1)

\* C3: after a successful validation, and after any later validation of the
\* same Source, raw = raw/<file>, dirty = dirty/<basename>-dirty.csv and
\* clean = clean/<basename>-clean.csv, basename being <file> without its last
\* dot-extension.
C3_PathsFromFileName ==
    pc = "validated" =>
        /\ rawpath = RawRoot \o metadata["file"].v
        /\ dirtypath = DirtyRoot \o BaseName(metadata["file"].v) \o DirtySuffix
        /\ cleanpath = CleanRoot \o BaseName(metadata["file"].v) \o CleanSuffix

\* a file name with two dots was given its paths
C3_Witness ==
    /\ pc = "validated"
    /\ Cardinality(DotPositions(metadata["file"].v)) = 2
    /\ dirtypath = DirtyRoot \o <<"a", ".", "b">> \o DirtySuffix

(***************************************************************************)
(* Algorithm._quick_scrub, one regular expression at a time.               *)
(***************************************************************************)
IsSpace(c) == c \in {" ", "\t", "\n"}

LowerChar(c) ==
    CASE c = "A" -> "a"
      [] c = "B" -> "b"
      [] c = "M" -> "m"
      [] c = "T" -> "t"
      [] OTHER -> c

RECURSIVE LeadingSpaces(_)
LeadingSpaces(s) ==
    IF s # <<>> /\ IsSpace(Head(s)) THEN 1 + LeadingSpaces(Tail(s)) ELSE 0

RECURSIVE TrailingSpaces(_)
TrailingSpaces(s) ==
    IF s # <<>> /\ IsSpace(s[Len(s)])
    THEN 1 + TrailingSpaces(SubSeq(s, 1, Len(s) - 1))
    ELSE 0

\* re.sub(r"\s+", " ", entry)
RECURSIVE CollapseSpaces(_)
CollapseSpaces(s) ==
    IF s = <<>> THEN <<>>
    ELSE IF IsSpace(Head(s))
         THEN <<" ">> \o CollapseSpaces(SubSeq(s, LeadingSpaces(s) + 1, Len(s)))
         ELSE <<Head(s)>> \o CollapseSpaces(Tail(s))

\* re.sub(r"^\s+([^\s].+)", r"\1", entry): the group needs two characters
StripLeading(s) ==
    IF LeadingSpaces(s) >= 1 /\ Len(s) >= LeadingSpaces(s) + 2
    THEN SubSeq(s, LeadingSpaces(s) + 1, Len(s))
    ELSE s

\* re.sub(r"(.+[^\s])\s+$", r"\1", entry): the group needs two characters
StripTrailing(s) ==
    IF TrailingSpaces(s) >= 1 /\ Len(s) - TrailingSpaces(s) >= 2
    THEN SubSeq(s, 1, Len(s) - TrailingSpaces(s))
    ELSE s

\* re.sub(r"^\s+$", "", entry)
BlankToEmpty(s) ==
    IF s # <<>> /\ LeadingSpaces(s) = Len(s) THEN <<>> ELSE s

Lower(s) == [i \in 1..Len(s) |-> LowerChar(s[i])]

_quick_scrub(entry) ==
    Lower(BlankToEmpty(StripTrailing(StripLeading(CollapseSpaces(entry)))))

(***************************************************************************)
(* Algorithm.char_encode_check.  The result is [exc, enc]: the kind of the *)
(* exception raised ("none" when it returns) and the encoding returned.    *)
(* metadata is the dict json.load returned, which has no attribute 'data': *)
(* line 261 raises AttributeError whenever the encoding tag is present.    *)
(***************************************************************************)
RECURSIVE FirstDecoding(_, _)
FirstDecoding(encs, file) ==
    IF encs = <<>> THEN [exc |-> "RuntimeError", enc |-> <<>>]
    ELSE IF Head(encs) \in file.decodes THEN [exc |-> "none", enc |-> Head(encs)]
    ELSE FirstDecoding(Tail(encs), file)

char_encode_check(md, rawfile) ==
    IF Has(md, "encoding")
    THEN [exc |-> "AttributeError", enc |-> <<>>]
    ELSE FirstDecoding(ENCODING_LIST, rawfile)

(***************************************************************************)
(* CSV_Algorithm.format_correction on the rows csv.reader yields.  The     *)
(* result is [exc, rows]; row[0] of an empty first row raises IndexError.  *)
(***************************************************************************)
BOM == "\\ufeff"

\* re.sub(r"^\ufeff(.+)", r"\1", row[0])
StripBOM(cell) ==
    IF Len(cell) >= 2 /\ cell[1] = BOM /\ cell[2] # "\n" THEN Tail(cell) ELSE cell

RECURSIVE PadTo(_, _)
PadTo(row, size) == IF Len(row) < size THEN PadTo(Append(row, <<>>), size) ELSE row

format_correction(rows) ==
    IF rows = <<>> THEN [exc |-> "none", rows |-> <<>>]
    ELSE IF rows[1] = <<>> THEN [exc |-> "IndexError", rows |-> <<>>]
    ELSE LET first == <<StripBOM(rows[1][1])>> \o Tail(rows[1])
             size == Len(first)
         IN  [exc |-> "none",
              rows |-> [i \in 1..Len(rows) |->
                           IF i = 1 THEN first ELSE PadTo(rows[i], size)]]

(***************************************************************************)
(* extract_labels.  The label map is the dict in insertion order: a        *)
(* sequence of [key, loc].  The result is [exc, items].                    *)
(***************************************************************************)
DPIFORCE == JStr(<<"DPIFORCE">>)

XPath(t) == <<".//">> \o t

\* CSV_Algorithm.extract_labels, lines 371-377, for one field name
CsvLabel(md, i) ==
    IF Has(md["info"].v, i) /\ i \notin Range(ADDR_FIELD_LABEL)
    THEN [exc |-> "none", loc |-> md["info"].v[i]]
    ELSE IF Has(md["info"].v, "address") /\ Has(md["info"].v["address"].v, i)
    THEN [exc |-> "none", loc |-> md["info"].v["address"].v[i]]
    ELSE IF Has(md, "force") /\ Has(md["force"].v, i)
    THEN [exc |-> "none", loc |-> DPIFORCE]
    ELSE [exc |-> "none", loc |-> JAbsent]

\* XML_Algorithm.extract_labels, lines 550-562, for one field name; ".//" + x
\* raises TypeError when x is not a string
XmlLabel(md, i) ==
    IF Has(md["info"].v, i) /\ i \notin Range(ADDR_FIELD_LABEL) /\ i # "address"
    THEN IF IsList(md["info"].v[i])
         THEN [exc |-> "none",
               loc |-> JList([k \in 1..Len(md["info"].v[i].v) |->
                                 XPath(md["info"].v[i].v[k])])]
         ELSE IF IsStr(md["info"].v[i])
         THEN [exc |-> "none", loc |-> JStr(XPath(md["info"].v[i].v))]
         ELSE [exc |-> "TypeError", loc |-> JAbsent]
    ELSE IF Has(md["info"].v, "address") /\ Has(md["info"].v["address"].v, i)
    THEN IF IsStr(md["info"].v["address"].v[i])
         THEN [exc |-> "none", loc |-> JStr(XPath(md["info"].v["address"].v[i].v))]
         ELSE [exc |-> "TypeError", loc |-> JAbsent]
    ELSE IF Has(md, "force") /\ Has(md["force"].v, i)
    THEN [exc |-> "none", loc |-> DPIFORCE]
    ELSE [exc |-> "none", loc |-> JAbsent]

Label(md, i) == IF md["format"].v = CSV THEN CsvLabel(md, i) ELSE XmlLabel(md, i)

\* the loop over FIELD_LABEL, from the n-th name on, items being the map so far
RECURSIVE extract_labels(_, _, _)
extract_labels(md, n, items) ==
    IF n > Len(FIELD_LABEL) THEN [exc |-> "none", items |-> items]
    ELSE LET l == Label(md, FIELD_LABEL[n])
         IN  IF l.exc # "none" THEN [exc |-> l.exc, items |-> items]
             ELSE IF l.loc.t = "absent" THEN extract_labels(md, n + 1, items)
             ELSE extract_labels(md, n + 1,
                     Append(items, [key |-> FIELD_LABEL[n], loc |-> l.loc]))

Keys(items) == [i \in 1..Len(items) |-> items[i].key]

KeySet(items) == {items[i].key : i \in 1..Len(items)}

\* tags[key]
Loc(items, key) == items[CHOOSE i \in 1..Len(items) : items[i].key = key].loc

(***************************************************************************)
(* Algorithm._generateFirstRow and Algorithm._isRowEmpty.                  *)
(***************************************************************************)
Reversed(s) == [i \in 1..Len(s) |-> s[Len(s) + 1 - i]]

\* list.insert(ind, x), ind counted from 1
InsertAt(row, ind, x) == SubSeq(row, 1, ind - 1) \o <<x>> \o SubSeq(row, ind, Len(row))

RECURSIVE InsertAll(_, _, _)
InsertAll(row, ind, xs) ==
    IF xs = <<>> THEN row ELSE InsertAll(InsertAt(row, ind, Head(xs)), ind, Tail(xs))

\* list.index(x): the first position of x
IndexOf(row, x) == CHOOSE i \in 1..Len(row) : row[i] = x /\ \A j \in 1..(i - 1) : row[j] # x

\* a faulty variant of _generateFirstRow: the address labels are not reversed
\* before they are inserted one by one
FirstRowNotReversed(tags) ==
    IF "full_addr" \in Range(Keys(tags))
    THEN LET ind == IndexOf(Keys(tags), "full_addr")
         IN  InsertAll(SubSeq(Keys(tags), 1, ind - 1)
                         \o SubSeq(Keys(tags), ind + 1, Len(Keys(tags))),
                       ind, ADDR_FIELD_LABEL)
    ELSE Keys(tags)

\* a faulty variant of _generateFirstRow: full_addr is not popped before the
\* address labels are inserted
FirstRowKeepsFullAddr(tags) ==
    IF "full_addr" \in Range(Keys(tags))
    THEN InsertAll(Keys(tags), IndexOf(Keys(tags), "full_addr"),
                   Reversed(ADDR_FIELD_LABEL))
    ELSE Keys(tags)

_generateFirstRow(tags) ==
    IF "full_addr" \in Range(Keys(tags))
    THEN LET ind == IndexOf(Keys(tags), "full_addr")
         IN  InsertAll(SubSeq(Keys(tags), 1, ind - 1)
                         \o SubSeq(Keys(tags), ind + 1, Len(Keys(tags))),
                       ind, Reversed(ADDR_FIELD_LABEL))
    ELSE Keys(tags)

\* a faulty variant of _isRowEmpty: only the first cell is looked at
FirstCellEmpty(row) == row = <<>> \/ row[1] = <<>>

_isRowEmpty(row) == \A i \in 1..Len(row) : row[i] = <<>>

(***************************************************************************)
(* The address parser (an opaque function of the scrubbed address) and the *)
(* projection of its tokens, each <<text, label>>, onto the address        *)
(* columns (lines 433-438, 450-455, 620-625, 638-643).                     *)
(***************************************************************************)
Parsers == {"none found", "tokens", "raises"}

\* a parser that splits the address at its spaces and labels each word by its
\* first character
RECURSIVE Words(_)
Words(s) ==
    IF s = <<>> THEN <<>>
    ELSE IF Head(s) = " " THEN Words(Tail(s))
    ELSE LET n == CHOOSE k \in 1..Len(s) :
                      /\ \A j \in 1..k : s[j] # " "
                      /\ (k = Len(s) \/ s[k + 1] = " ")
         IN  <<SubSeq(s, 1, n)>> \o Words(SubSeq(s, n + 1, Len(s)))

WordLabel(w) ==
    CASE Head(w) = "r" -> "road"
      [] Head(w) = "s" -> "state"
      [] OTHER -> "suburb"

ParserApply(p, addr) ==
    IF p = "raises" THEN [exc |-> "ParserError", tokens |-> <<>>]
    ELSE IF p = "lexicon"
    THEN [exc |-> "none",
          tokens |-> [i \in 1..Len(Words(addr)) |->
                         <<Words(addr)[i], WordLabel(Words(addr)[i])>>]]
    ELSE IF p = "tokens" /\ addr # <<>>
    THEN [exc |-> "none",
          tokens |-> << <<addr, "road">>, <<<<"o", "n">>, "state">>,
                        <<<<"x">>, "road">>, <<<<"y">>, "suburb">> >>]
    ELSE [exc |-> "none", tokens |-> <<>>]

TokenLabels(ap) == [i \in 1..Len(ap) |-> ap[i][2]]

\* a faulty variant of the projection: the last token of a label is taken
AddrCellsLastMatch(ap) ==
    [n \in 1..Len(ADDR_FIELD_LABEL) |->
        IF _ADDR_LABEL_TO_POSTAL[ADDR_FIELD_LABEL[n]] \in Range(TokenLabels(ap))
        THEN ap[CHOOSE i \in 1..Len(ap) :
                   /\ ap[i][2] = _ADDR_LABEL_TO_POSTAL[ADDR_FIELD_LABEL[n]]
                   /\ \A j \in (i + 1)..Len(ap) :
                          ap[j][2] # _ADDR_LABEL_TO_POSTAL[ADDR_FIELD_LABEL[n]]][1]
        ELSE <<>>]

AddrCells(ap) ==
    [n \in 1..Len(ADDR_FIELD_LABEL) |->
        IF _ADDR_LABEL_TO_POSTAL[ADDR_FIELD_LABEL[n]] \in Range(TokenLabels(ap))
        THEN ap[IndexOf(TokenLabels(ap), _ADDR_LABEL_TO_POSTAL[ADDR_FIELD_LABEL[n]])][1]
        ELSE <<>>]

Decompose(p, entry) ==
    IF ParserApply(p, entry).exc # "none"
    THEN [exc |-> ParserApply(p, entry).exc, cells |-> <<>>]
    ELSE [exc |-> "none", cells |-> AddrCells(ParserApply(p, entry).tokens)]

(***************************************************************************)
(* Record access.  A CSV record is the dict csv.DictReader yields: a       *)
(* function from the field names of the first row.  An XML record is a     *)
(* function from the names of its sub-elements to [has_text, text].        *)
(***************************************************************************)
LastIndexOf(row, x) == CHOOSE i \in 1..Len(row) : row[i] = x /\ \A j \in (i + 1)..Len(row) : row[j] # x

\* format_correction has padded every row to the length of the first one
Entity(fieldnames, row) ==
    [c \in Range(fieldnames) |-> row[LastIndexOf(fieldnames, c)]]

\* csv.DictReader: the first row names the fields, empty rows are skipped
CsvRecords(file) ==
    IF file.rows = <<>> THEN <<>>
    ELSE LET body == SelectSeq(Tail(file.rows), LAMBDA r : r # <<>>)
         IN  [k \in 1..Len(body) |-> Entity(file.rows[1], body[k])]

\* root.iter(header)
XmlRecords(file) == file.rows

NoElement == [node |-> FALSE, has_text |-> FALSE, text |-> <<>>]

\* element.find(".//" + name)
Find(element, path) ==
    IF Tail(path) \in DOMAIN element
    THEN [node |-> TRUE, has_text |-> element[Tail(path)].has_text,
          text |-> element[Tail(path)].text]
    ELSE NoElement

_xml_empty_element_handler(element) ==
    IF ~element.node THEN <<>>
    ELSE IF element.has_text THEN element.text
    ELSE <<>>

(***************************************************************************)
(* The body of the loop "for key in tags" for one key.  The result is      *)
(* [exc, cells]: the exception raised, or the cells appended to the row.   *)
(* json_data is a name defined nowhere in the module: reading it raises    *)
(* NameError.                                                              *)
(***************************************************************************)
Cells(cs) == [exc |-> "none", cells |-> cs]
Raise(kind) == [exc |-> kind, cells |-> <<>>]

\* CSV_Algorithm.parse, lines 418-469
CsvKey(item, entity, p) ==
    IF IsList(item.loc) /\ item.key \notin Range(FORCE_LABEL)
    THEN IF \E k \in 1..Len(item.loc.v) : item.loc.v[k] \notin DOMAIN entity
         THEN Raise("KeyError")
         ELSE LET entry == _quick_scrub(Flatten(
                      [k \in 1..Len(item.loc.v) |-> entity[item.loc.v[k]] \o <<" ">>]))
              IN  IF item.key # "full_addr" THEN Cells(<<entry>>) ELSE Decompose(p, entry)
    ELSE IF item.key = "full_addr"
    THEN IF item.loc.v \notin DOMAIN entity THEN Raise("KeyError")
         ELSE Decompose(p, _quick_scrub(entity[item.loc.v]))
    ELSE IF IsStr(item.loc) /\ item.loc.v = DPIFORCE.v THEN Raise("NameError")
    ELSE IF IsList(item.loc) THEN Raise("TypeError")
    ELSE IF item.loc.v \notin DOMAIN entity THEN Raise("KeyError")
    ELSE Cells(<<_quick_scrub(entity[item.loc.v])>>)

\* XML_Algorithm.parse, lines 603-658
XmlKey(item, element, p) ==
    IF IsList(item.loc) /\ item.key \notin Range(FORCE_LABEL)
    THEN LET entry == _quick_scrub(Flatten(
                 [k \in 1..Len(item.loc.v) |->
                     _xml_empty_element_handler(Find(element, item.loc.v[k])) \o <<" ">>]))
         IN  IF item.key # "full_addr" THEN Cells(<<entry>>) ELSE Decompose(p, entry)
    ELSE IF item.key = "full_addr"
    THEN Decompose(p, _quick_scrub(_xml_empty_element_handler(Find(element, item.loc.v))))
    ELSE IF IsStr(item.loc) /\ item.loc.v = DPIFORCE.v THEN Raise("NameError")
    ELSE IF IsList(item.loc) THEN Raise("TypeError")
    ELSE Cells(<<_quick_scrub(_xml_empty_element_handler(Find(element, item.loc.v)))>>)

KeyCells(fmt, item, record, p) ==
    IF fmt = CSV THEN CsvKey(item, record, p) ELSE XmlKey(item, record, p)

\* "for key in tags", from the n-th key on, row being the row so far; the
\* result is [exc, row]
RECURSIVE ResolveRow(_, _, _, _, _, _)
ResolveRow(fmt, tags, record, p, n, row) ==
    IF n > Len(tags) THEN [exc |-> "none", row |-> row]
    ELSE LET c == KeyCells(fmt, tags[n], record, p)
         IN  IF c.exc # "none" THEN [exc |-> c.exc, row |-> row]
             ELSE ResolveRow(fmt, tags, record, p, n + 1, row \o c.cells)

\* "for entity in csvreader" / "for element in root.iter(header)", from the
\* k-th record on, out being the rows written so far; the result is [exc, rows]
RECURSIVE Transform(_, _, _, _, _, _)
Transform(fmt, tags, records, p, k, out) ==
    IF k > Len(records) THEN [exc |-> "none", rows |-> out]
    ELSE LET r == ResolveRow(fmt, tags, records[k], p, 1, <<>>)
         IN  IF r.exc # "none" THEN [exc |-> r.exc, rows |-> out]
             ELSE Transform(fmt, tags, records, p, k + 1,
                            IF _isRowEmpty(r.row) THEN out ELSE Append(out, r.row))

(***************************************************************************)
(* The operations of DataProcess.process, in its order: prepareData,       *)
(* extractLabels, parse, clean.  parse checks hasattr(source, 'label_map'),*)
(* which holds from Source.__init__ on, so it also runs on a Source whose  *)
(* label map is still None.                                                *)
(***************************************************************************)
AllEncodings == Range(ENCODING_LIST)

CsvFile(rows) == [kind |-> "csv", header |-> <<>>, rows |-> rows, decodes |-> AllEncodings]
XmlFile(elements, decodes) ==
    [kind |-> "xml", header |-> <<>>, rows |-> elements, decodes |-> decodes]
StdFile(header, rows) ==
    [kind |-> "std", header |-> header, rows |-> rows, decodes |-> AllEncodings]
\* a file opened for writing into which nothing was written
EmptyFile == [kind |-> "empty", header |-> <<>>, rows |-> <<>>, decodes |-> AllEncodings]

Format == metadata["format"].v

Fail(kind) == pc' = "failed" /\ err' = kind

\* DataProcess.prepareData
PrepareData ==
    /\ pc = "validated"
    /\ call' = "prepareData"
    /\ IF Format = CSV
       THEN LET e == char_encode_check(metadata, fs.raw)
                c == format_correction(fs.raw.rows)
            IN  IF e.exc # "none"
                THEN Fail(e.exc) /\ UNCHANGED <<fs, enc>>
                ELSE /\ enc' = e.enc
                     /\ IF c.exc # "none"
                        THEN Fail(c.exc) /\ fs' = [fs EXCEPT !.dirty = EmptyFile]
                        ELSE /\ fs' = [fs EXCEPT !.dirty = CsvFile(c.rows)]
                             /\ pc' = "prepared"
                             /\ err' = "none"
       ELSE pc' = "prepared" /\ UNCHANGED <<fs, enc, err>>
    /\ UNCHANGED <<metadata, rawpath, dirtypath, cleanpath, label_map,
                   address_parser, stdout>>

\* DataProcess.extractLabels
ExtractLabels ==
    /\ pc = "prepared"
    /\ call' = "extract_labels"
    /\ LET l == extract_labels(metadata, 1, <<>>)
       IN  IF l.exc # "none"
           THEN Fail(l.exc) /\ UNCHANGED label_map
           ELSE /\ label_map' = [built |-> TRUE, items |-> l.items]
                /\ pc' = "labelled"
                /\ err' = "none"
    /\ UNCHANGED <<metadata, rawpath, dirtypath, cleanpath, fs, address_parser,
                   enc, stdout>>

\* CSV_Algorithm.parse
ParseCSV ==
    /\ pc \in {"prepared", "labelled"}
    /\ Format = CSV
    /\ call' = "parse"
    /\ LET e == char_encode_check(metadata, fs.raw)
       IN  IF e.exc # "none"
           THEN Fail(e.exc) /\ UNCHANGED <<fs, enc, stdout>>
           ELSE /\ enc' = e.enc
                /\ IF ~label_map.built
                   THEN /\ Fail("TypeError")
                        /\ fs' = [fs EXCEPT !.temp = EmptyFile]
                        /\ UNCHANGED stdout
                   ELSE LET t == Transform(CSV, label_map.items, CsvRecords(fs.dirty),
                                           address_parser, 1, <<>>)
                            out == StdFile(_generateFirstRow(label_map.items), t.rows)
                        IN  IF t.exc = "KeyError"
                            THEN /\ stdout' = Append(stdout, "[E] is not a field name in the CSV file.")
                                 /\ fs' = [fs EXCEPT !.dirty = out, !.temp = NoFile]
                                 /\ pc' = "transformed"
                                 /\ err' = "none"
                            ELSE IF t.exc # "none"
                            THEN /\ Fail(t.exc)
                                 /\ fs' = [fs EXCEPT !.temp = out]
                                 /\ UNCHANGED stdout
                            ELSE /\ fs' = [fs EXCEPT !.dirty = out, !.temp = NoFile]
                                 /\ pc' = "transformed"
                                 /\ err' = "none"
                                 /\ UNCHANGED stdout
    /\ UNCHANGED <<metadata, rawpath, dirtypath, cleanpath, label_map, address_parser>>

\* XML_Algorithm.parse
ParseXML ==
    /\ pc \in {"prepared", "labelled"}
    /\ Format = XML
    /\ call' = "parse"
    /\ LET e == char_encode_check(metadata, fs.raw)
       IN  IF e.exc # "none"
           THEN Fail(e.exc) /\ UNCHANGED <<fs, enc>>
           ELSE /\ enc' = e.enc
                /\ IF ~label_map.built
                   THEN /\ Fail("TypeError")
                        /\ fs' = [fs EXCEPT !.dirty = EmptyFile]
                   ELSE LET t == Transform(XML, label_map.items, XmlRecords(fs.raw),
                                           address_parser, 1, <<>>)
                            out == StdFile(_generateFirstRow(label_map.items), t.rows)
                        IN  /\ fs' = [fs EXCEPT !.dirty = out]
                            /\ IF t.exc # "none"
                               THEN Fail(t.exc)
                               ELSE pc' = "transformed" /\ err' = "none"
    /\ UNCHANGED <<metadata, rawpath, dirtypath, cleanpath, label_map,
                   address_parser, stdout>>

\* CSV_Algorithm.clean, XML_Algorithm.clean: os.rename(dirtypath, cleanpath)
Clean ==
    /\ pc = "transformed"
    /\ call' = "clean"
    /\ fs' = [fs EXCEPT !.clean = fs.dirty, !.dirty = NoFile]
    /\ pc' = "cleaned"
    /\ UNCHANGED <<metadata, rawpath, dirtypath, cleanpath, label_map,
                   address_parser, err, enc, stdout>>

(***************************************************************************)
(* The datasets: metadata documents that pass the validator, over the      *)
(* locator shapes the transformers tell apart, and raw files of up to      *)
(* MaxRecords records.                                                     *)
(***************************************************************************)
ColN == <<"N">>
ColA == <<"A">>
ColC == <<"C">>
ColX == <<"X">>     \* names no column and no element of any raw file

NameLocs == {JAbsent, JStr(ColN), JList(<<ColN, ColC>>), JStr(ColX)}

\* <<full_addr, address>>
AddrModes ==
    {<<JAbsent, JAbsent>>,
     <<JStr(ColA), JAbsent>>,
     <<JList(<<ColA, ColC>>), JAbsent>>,
     <<JAbsent, JObj([road |-> JStr(ColA)])>>,
     <<JAbsent, JObj([city |-> JStr(ColC)])>>,
     <<JAbsent, JObj([road |-> JList(<<ColA, ColC>>)])>>}

CityLocs == {JAbsent, JStr(ColC)}

ForceOpts ==
    {JAbsent,
     JObj([country |-> JStr(<<"C", "a", " ">>)]),
     JObj([city |-> JStr(<<"T", "o">>)])}

EncodingOpts == {JStr(<<"utf-8">>), JStr(<<"big5">>)}

DatasetDoc(f, e, b, am, c, fc) ==
    Doc([format |-> JStr(f), file |-> JStr(<<"d", ".", "x">>),
         header |-> IF f = XML THEN JStr(<<"r">>) ELSE JAbsent,
         encoding |-> e,
         info |-> JObj(Doc([bus_name |-> b, full_addr |-> am[1],
                            address |-> am[2], city |-> c])),
         force |-> fc])

\* every locator shape without an encoding tag, and the documents that map
\* bus_name alone with an encoding tag
Datasets ==
    {DatasetDoc(f, JAbsent, b, am, c, fc) :
        f \in {CSV, XML}, b \in NameLocs, am \in AddrModes, c \in CityLocs,
        fc \in ForceOpts}
    \cup
    {DatasetDoc(f, e, JStr(ColN), <<JAbsent, JAbsent>>, JAbsent, JAbsent) :
        f \in {CSV, XML}, e \in EncodingOpts}

CsvHeader == <<ColN, ColA, ColC>>

CsvRows ==
    {<< <<>>, <<>>, <<>> >>,
     << <<" ", "A", "b">>, <<>>, <<>> >>,
     << <<" ">>, <<"1", " ", " ", "M">>, <<"T", "\t">> >>}

Text(s) == [has_text |-> TRUE, text |-> s]
NoText == [has_text |-> FALSE, text |-> <<>>]

XmlElements ==
    {<<>>,
     [c \in {ColN} |-> Text(<<" ", "A", "b">>)],
     [c \in {ColN, ColA, ColC} |->
         IF c = ColN THEN NoText
         ELSE IF c = ColA THEN Text(<<"1", " ", " ", "M">>)
         ELSE Text(<<"T", "\t">>)]}

RawFiles(md) ==
    IF md["format"].v = CSV
    THEN {[kind |-> "csv", header |-> <<>>, rows |-> <<CsvHeader>> \o rs, decodes |-> d] :
            rs \in SeqsUpTo(CsvRows, MaxRecords),
            d \in IF Has(md, "encoding") THEN {AllEncodings}
                  ELSE {AllEncodings, {<<"cp437">>}}}
    ELSE {XmlFile(es, d) :
            es \in SeqsUpTo(XmlElements, MaxRecords),
            d \in IF Has(md, "encoding") THEN {AllEncodings}
                  ELSE {AllEncodings, {<<"cp437">>}}}

Init ==
    /\ metadata \in Datasets
    /\ Constructed
    /\ \E raw \in RawFiles(metadata) : fs = [NoFiles EXCEPT !.raw = raw]
    /\ address_parser \in IF Has(metadata["info"].v, "full_addr")
                          THEN Parsers ELSE {"none found"}

Next ==
    \/ SourceParse
    \/ PrepareData
    \/ ExtractLabels
    \/ ParseCSV
    \/ ParseXML
    \/ Clean

Spec == Init /\ [][Next]_vars

(***************************************************************************)
(* What the claims below speak of.                                         *)
(***************************************************************************)
Info == metadata["info"].v

\* char_encode_check has been called: by prepareData for CSV, by parse for XML
EncodingChecked ==
    \/ Format = CSV /\ call = "prepareData"
    \/ Format = XML /\ call = "parse"

\* C4: with an encoding tag in the metadata, char_encode_check returns the
\* declared value when it is one of utf-8, cp1252, cp437, and raises ValueError
\* otherwise.
C4_DeclaredEncodingReturned ==
    (Has(metadata, "encoding") /\ EncodingChecked) =>
        IF metadata["encoding"].v \in Range(ENCODING_LIST)
        THEN err = "none" /\ enc = metadata["encoding"].v
        ELSE pc = "failed" /\ err = "ValueError"

\* the locator of a field name by the precedence of C5, ".//"-prefixed for XML
Located(x) ==
    IF Format = CSV THEN x
    ELSE IF IsList(x) THEN JList([k \in 1..Len(x.v) |-> XPath(x.v[k])])
    ELSE JStr(XPath(x.v))

ExpectedLocator(name) ==
    IF Has(Info, name) /\ name \notin Range(ADDR_FIELD_LABEL) THEN Located(Info[name])
    ELSE IF Has(Info, "address") /\ Has(Info["address"].v, name)
    THEN Located(Info["address"].v[name])
    ELSE IF Has(metadata, "force") /\ Has(metadata["force"].v, name) THEN DPIFORCE
    ELSE JAbsent

MapHolds(name) ==
    IF ExpectedLocator(name).t = "absent"
    THEN name \notin KeySet(label_map.items)
    ELSE /\ name \in KeySet(label_map.items)
         /\ Loc(label_map.items, name).t = ExpectedLocator(name).t
         /\ Loc(label_map.items, name).v = ExpectedLocator(name).v

\* C5: for every validated metadata document extract_labels (CSV and XML) builds
\* the label map that holds, for each name of the standard vocabulary, the
\* locator chosen by the precedence info, info.address, force, and no entry
\* otherwise; its keys are within the vocabulary and it never holds full_addr
\* together with a sub-field of an address group.
C5_LabelMapByPrecedence ==
    call = "extract_labels" =>
        /\ label_map.built
        /\ \A name \in Range(FIELD_LABEL) : MapHolds(name)
        /\ KeySet(label_map.items) \subseteq Range(FIELD_LABEL)
        /\ ~(/\ "full_addr" \in KeySet(label_map.items)
             /\ Has(Info, "address")
             /\ DOMAIN Info["address"].v \cap KeySet(label_map.items) # {})

\* the header rows the transformer has written
WrittenFiles == {n \in {"dirty", "temp", "clean"} : fs[n].kind = "std"}

VocabularyOf(keep(_)) == SelectSeq(FIELD_LABEL, keep)

WithAddressColumns(names) ==
    Flatten([i \in 1..Len(names) |->
                IF names[i] = "full_addr" THEN ADDR_FIELD_LABEL ELSE <<names[i]>>])

\* C6 as stated: the header row holds the seven structured-address columns, in
\* mail-address order, at the position of full_addr in the standard vocabulary,
\* whether or not full_addr is mapped, and the other mapped columns in the order
\* of the vocabulary.
C6_SevenAddressColumnsAlways ==
    \A n \in WrittenFiles :
        fs[n].header =
            WithAddressColumns(VocabularyOf(
                LAMBDA k : \/ k = "full_addr"
                           \/ /\ k \in KeySet(label_map.items)
                              /\ k \notin Range(ADDR_FIELD_LABEL)))

\* C6 (amended): the header row is the label map's keys in the order of the
\* standard vocabulary, where full_addr, when it is a key, is replaced in place
\* by the seven structured-address columns in mail-address order; without
\* full_addr no address column is added.
C6_HeaderOfLabelMap ==
    \A n \in WrittenFiles :
        fs[n].header =
            WithAddressColumns(VocabularyOf(LAMBDA k : k \in KeySet(label_map.items)))

\* the transform completed and wrote the header of a label map with bus_name
\* and full_addr
C6_Witness ==
    /\ pc = "transformed"
    /\ fs.dirty.kind = "std"
    /\ Len(fs.dirty.header) = 8
    /\ fs.dirty.header[1] = "bus_name"
    /\ fs.dirty.header[2] = "unit"

(***************************************************************************)
(* The records of the source, and the row each resolves to.                *)
(***************************************************************************)
SourceRecords ==
    IF Format = CSV
    THEN CsvRecords(CsvFile(format_correction(fs.raw.rows).rows))
    ELSE XmlRecords(fs.raw)

Resolved(k) ==
    ResolveRow(Format, label_map.items, SourceRecords[k], address_parser, 1, <<>>)

\* the transform ran on a built label map
Transformed == label_map.built /\ call \in {"parse", "clean"}

\* the file the transformer's rows went to
Output ==
    IF pc = "cleaned" THEN fs.clean
    ELSE IF fs.temp.kind = "std" THEN fs.temp
    ELSE fs.dirty

\* the column of a field in the header row
Column(header, name) == IndexOf(header, name)

\* what makes a transform fail apart from the case a claim is about
UsesColX == Has(Info, "bus_name") /\ IsStr(Info["bus_name"]) /\ Info["bus_name"].v = ColX
ParserRaises == Has(Info, "full_addr") /\ address_parser = "raises"
Forced ==
    \E i \in 1..Len(label_map.items) :
        IsStr(label_map.items[i].loc) /\ label_map.items[i].loc.v = DPIFORCE.v

\* the fields with a force entry that are absent from info and info.address
ForcedFields ==
    IF Has(metadata, "force")
    THEN {k \in DOMAIN metadata["force"].v :
             /\ ~Has(Info, k)
             /\ ~(Has(Info, "address") /\ Has(Info["address"].v, k))}
    ELSE {}

\* C7: with a force entry for a field absent from info and info.address, the
\* transformer completes and every data row written carries the scrubbed forced
\* literal in that field's column.
C7_ForcedLiteralInEveryRow ==
    (/\ Transformed
     /\ ForcedFields # {}
     /\ ~Has(metadata, "encoding") /\ ~UsesColX /\ ~ParserRaises) =>
        /\ pc \in {"transformed", "cleaned"}
        /\ err = "none"
        /\ \A k \in ForcedFields : \A r \in 1..Len(Output.rows) :
               Output.rows[r][Column(Output.header, k)]
                   = _quick_scrub(metadata["force"].v[k].v)

\* the records that were resolved: all of them, or those before the first one
\* whose resolution raised
ResolvedCount ==
    IF \A k \in 1..Len(SourceRecords) : Resolved(k).exc = "none"
    THEN Len(SourceRecords)
    ELSE (CHOOSE k \in 1..Len(SourceRecords) :
              /\ Resolved(k).exc # "none"
              /\ \A j \in 1..(k - 1) : Resolved(j).exc = "none") - 1

HasContent(row) == \E i \in 1..Len(row) : row[i] # <<>>

\* C8: the data rows written are, in source-record order, exactly the resolved
\* rows that have a non-empty cell, of all the records when the transform
\* completes: none of those is left out, written twice or out of order, and no
\* row of empty strings only is written.
C8_RowsAreNonEmptyResolvedRows ==
    (Transformed /\ Output.kind = "std") =>
        /\ Output.rows =
               SelectSeq([k \in 1..ResolvedCount |-> Resolved(k).row], HasContent)
        /\ (pc \in {"transformed", "cleaned"} /\ stdout = <<>>) =>
               ResolvedCount = Len(SourceRecords)

\* of two records, the first resolved to empty strings only and was dropped, the
\* second was written, its first cell empty
C8_Witness ==
    /\ pc = "cleaned"
    /\ stdout = <<>>
    /\ Len(SourceRecords) = 2
    /\ ~HasContent(Resolved(1).row)
    /\ Len(fs.clean.rows) = 1
    /\ Len(fs.clean.rows[1]) >= 2
    /\ fs.clean.rows[1][1] = <<>>

\* C9: a CSV transform whose label map names a column the record does not have
\* raises KeyError (FieldNotFound) to the caller; an XML transform whose locator
\* matches no element, or an element without text, completes with the empty
\* string in that field.
C9_MissingColumnRaisesMissingElementEmpty ==
    (Transformed /\ ~Has(metadata, "encoding") /\ ~ParserRaises /\ ~Forced
       /\ UsesColX /\ Len(SourceRecords) >= 1) =>
        IF Format = CSV
        THEN pc = "failed" /\ err = "KeyError"
        ELSE /\ pc \in {"transformed", "cleaned"}
             /\ err = "none"
             /\ \A r \in 1..Len(Output.rows) :
                    Output.rows[r][Column(Output.header, "bus_name")] = <<>>

SameFile(f, g) == f.kind = g.kind /\ f.header = g.header /\ f.rows = g.rows

\* C10: when the transform fails at a record (missing CSV column, forced-value
\* lookup, address parser error), the canonical intermediate file is as it was
\* before the transform and the pipeline stops.
C10_FailedTransformKeepsIntermediate ==
    [][(/\ call' = "parse" /\ call # "parse"
        /\ label_map.built
        /\ (err' \in {"NameError", "ParserError", "KeyError"} \/ stdout' # stdout)) =>
           (SameFile(fs'.dirty, fs.dirty) /\ pc' = "failed")]_vars

(***************************************************************************)
(* Raw CSV files with ragged rows, as csv.reader yields them: a blank line *)
(* is the row <<>>.  DataProcess.prepareData runs format_correction on     *)
(* them.                                                                   *)
(***************************************************************************)
RepairCells == {<<>>, <<"a">>, <<BOM>>, <<BOM, "a">>, <<BOM, "\n">>}

RepairRows ==
    {<<>>}
    \cup {<<c>> : c \in RepairCells}
    \cup {<<c, <<"a">>>> : c \in RepairCells}
    \cup {<< <<"a">>, <<>>, <<BOM, "a">> >>}

RepairDoc == DatasetDoc(CSV, JAbsent, JStr(ColN), <<JAbsent, JAbsent>>, JAbsent, JAbsent)

InitRepair ==
    /\ metadata = RepairDoc
    /\ Constructed
    /\ \E rows \in SeqsUpTo(RepairRows, MaxRecords + 1) :
           fs = [NoFiles EXCEPT !.raw = [kind |-> "csv", header |-> <<>>,
                                         rows |-> rows, decodes |-> AllEncodings]]
    /\ address_parser = "none found"

NextRepair ==
    \/ SourceParse
    \/ PrepareData

SpecRepair == InitRepair /\ [][NextRepair]_vars

(***************************************************************************)
(* What C11 and C12 speak of: the rows read and the rows written.          *)
(***************************************************************************)
RowsIn == fs.raw.rows
RowsOut == fs.dirty.rows

Marked(cell) == cell # <<>> /\ cell[1] = BOM
Unmarked(cell) == IF Marked(cell) THEN Tail(cell) ELSE cell

\* the cell written is the cell read; the first cell of the first row may
\* have lost its mark
CellKept(i, j) ==
    \/ RowsOut[i][j] = RowsIn[i][j]
    \/ i = 1 /\ j = 1 /\ RowsOut[i][j] = Unmarked(RowsIn[i][j])

ColumnCount == Len(RowsIn[1])

\* C11: for every raw CSV format_correction completes and writes as many rows
\* in the same order; with the first row's length as the column count, every
\* row written is at least that long, a shorter row is the row read padded on
\* the right with empty strings to that count, and a row of that length or
\* longer keeps its cells, none cut off.
C11_RepairPadsOnly ==
    call = "prepareData" =>
        /\ pc = "prepared"
        /\ fs.dirty.kind = "csv"
        /\ Len(RowsOut) = Len(RowsIn)
        /\ \A i \in 1..Len(RowsIn) :
               /\ Len(RowsOut[i]) >= ColumnCount
               /\ \A j \in 1..Len(RowsIn[i]) : CellKept(i, j)
               /\ IF Len(RowsIn[i]) < ColumnCount
                  THEN /\ Len(RowsOut[i]) = ColumnCount
                       /\ \A j \in (Len(RowsIn[i]) + 1)..ColumnCount : RowsOut[i][j] = <<>>
                  ELSE Len(RowsOut[i]) = Len(RowsIn[i])

\* C12: for every raw CSV whose first cell of the first row begins with a
\* byte-order mark, format_correction completes and writes that cell without
\* the mark, also when the cell is the mark alone, and the removal alters no
\* other cell.
C12_MarkRemovedFromFirstCell ==
    (/\ call = "prepareData"
     /\ RowsIn # <<>> /\ RowsIn[1] # <<>> /\ Marked(RowsIn[1][1])) =>
        /\ pc = "prepared"
        /\ RowsOut[1][1] = Tail(RowsIn[1][1])
        /\ \A i \in 1..Len(RowsIn) : \A j \in 1..Len(RowsIn[i]) :
               (i # 1 \/ j # 1) => RowsOut[i][j] = RowsIn[i][j]

(***************************************************************************)
(* Datasets of one record with one field, its text drawn from all strings  *)
(* of up to MaxEntryLen characters: what _quick_scrub and the address      *)
(* decomposition do to a value shows in the row written.                   *)
(***************************************************************************)
CellFile(fmt, col, x) ==
    IF fmt = CSV
    THEN [kind |-> "csv", header |-> <<>>, rows |-> << <<col>>, <<x>> >>,
          decodes |-> AllEncodings]
    ELSE XmlFile(<< [c \in {col} |-> IF x = <<>> THEN NoText ELSE Text(x)] >>,
                 AllEncodings)

ScrubChars == {" ", "\t", "a", "B"}

InitScrub ==
    /\ \E f \in {CSV, XML} :
           metadata = DatasetDoc(f, JAbsent, JStr(ColN), <<JAbsent, JAbsent>>,
                                 JAbsent, JAbsent)
    /\ Constructed
    /\ \E x \in SeqsUpTo(ScrubChars, MaxEntryLen) :
           fs = [NoFiles EXCEPT !.raw = CellFile(metadata["format"].v, ColN, x)]
    /\ address_parser = "none found"

SpecScrub == InitScrub /\ [][Next]_vars

AddrChars == {" ", "r", "s", "x"}

InitAddress ==
    /\ \E f \in {CSV, XML} :
           metadata = DatasetDoc(f, JAbsent, JAbsent, <<JStr(ColA), JAbsent>>,
                                 JAbsent, JAbsent)
    /\ Constructed
    /\ \E x \in SeqsUpTo(AddrChars, MaxEntryLen) :
           fs = [NoFiles EXCEPT !.raw = CellFile(metadata["format"].v, ColA, x)]
    /\ address_parser = "lexicon"

SpecAddress == InitAddress /\ [][Next]_vars

(***************************************************************************)
(* What C13 speaks of: the value read and the text it normalises to.       *)
(***************************************************************************)
Entry ==
    IF Format = CSV THEN fs.raw.rows[2][1]
    ELSE fs.raw.rows[1][CHOOSE c \in DOMAIN fs.raw.rows[1] : TRUE].text

RECURSIVE Trim(_)
Trim(s) ==
    IF s = <<>> THEN s
    ELSE IF IsSpace(Head(s)) THEN Trim(Tail(s))
    ELSE IF IsSpace(s[Len(s)]) THEN Trim(SubSeq(s, 1, Len(s) - 1))
    ELSE s

Normalised(x) == Lower(Trim(CollapseSpaces(x)))

\* C13: _quick_scrub returns its argument with every whitespace run collapsed
\* to one space, leading and trailing whitespace removed and letters in lower
\* case: the value written neither begins nor ends with whitespace, and
\* scrubbing it again returns it unchanged.
C13_ScrubTrimsAndIsIdempotent ==
    pc = "cleaned" =>
        /\ Normalised(Entry) # <<>> => Len(fs.clean.rows) = 1
        /\ \A r \in 1..Len(fs.clean.rows) :
               /\ fs.clean.rows[r][1] = Normalised(Entry)
               /\ ~IsSpace(fs.clean.rows[r][1][1])
               /\ ~IsSpace(fs.clean.rows[r][1][Len(fs.clean.rows[r][1])])
               /\ _quick_scrub(fs.clean.rows[r][1]) = fs.clean.rows[r][1]

(***************************************************************************)
(* What C14 speaks of: the tokens the parser returned for the record's     *)
(* address, and the seven cells of the claim.                              *)
(***************************************************************************)
Tokens == ParserApply(address_parser, _quick_scrub(Entry)).tokens

MailOrder == <<"unit", "house_number", "road", "city", "prov", "country", "postcode">>

ExternalLabel(name) == IF name = "prov" THEN "state" ELSE name

FirstText(tokens, label) ==
    IF \E i \in 1..Len(tokens) : tokens[i][2] = label
    THEN tokens[CHOOSE i \in 1..Len(tokens) :
                    /\ tokens[i][2] = label
                    /\ \A j \in 1..(i - 1) : tokens[j][2] # label][1]
    ELSE <<>>

SevenCells == [n \in 1..7 |-> FirstText(Tokens, ExternalLabel(MailOrder[n]))]

\* C14: the address decomposition appends exactly seven cells, in the order
\* unit, house_number, road, city, prov, country, postcode, each the text of
\* the first token with the mapped external label (state for prov) and the
\* empty string when no token has it; other labels and later tokens of a
\* matched label are ignored.
C14_SevenCellsFirstMatch ==
    (pc = "cleaned" /\ Has(Info, "full_addr") /\ Len(SourceRecords) = 1) =>
        fs.clean.rows = IF \A n \in 1..7 : SevenCells[n] = <<>>
                        THEN <<>>
                        ELSE <<SevenCells>>

\* the parser returned two road tokens of different text, and the row written
\* holds the first of them in its third cell and nothing in the others
C14_Witness ==
    /\ pc = "cleaned"
    /\ address_parser = "lexicon"
    /\ Len(Tokens) = 2
    /\ Tokens[1][2] = "road" /\ Tokens[2][2] = "road"
    /\ Tokens[1][1] # Tokens[2][1]
    /\ Len(fs.clean.rows) = 1
    /\ Len(fs.clean.rows[1]) = 7
    /\ fs.clean.rows[1][3] = Tokens[1][1]
    /\ fs.clean.rows[1][5] = <<>>

\* C15: parse (CSV and XML) on a Source whose label map was never built is
\* rejected with the ValueError "'extract_labels' was not ran" before any file
\* is opened, created, truncated or renamed.
C15_ParseWithoutLabelsRejected ==
    [][(call' = "parse" /\ call # "parse" /\ ~label_map.built) =>
           (pc' = "failed" /\ err' = "ValueError" /\ fs' = fs)]_vars

(***************************************************************************)
(* What C16 speaks of: the key of the label map a header column belongs    *)
(* to, and the value a record resolves to for a column name.               *)
(***************************************************************************)
Width(item) == IF item.key = "full_addr" THEN 7 ELSE 1

RECURSIVE Offset(_)
Offset(i) == IF i = 1 THEN 0 ELSE Offset(i - 1) + Width(label_map.items[i - 1])

KeyOf(j) ==
    CHOOSE i \in 1..Len(label_map.items) :
        Offset(i) < j /\ j <= Offset(i) + Width(label_map.items[i])

ColumnName(j) ==
    IF label_map.items[KeyOf(j)].key = "full_addr"
    THEN MailOrder[j - Offset(KeyOf(j))]
    ELSE label_map.items[KeyOf(j)].key

SourceText(k, loc) ==
    IF Format = CSV THEN SourceRecords[k][loc]
    ELSE _xml_empty_element_handler(Find(SourceRecords[k], loc))

EntryOf(k, item) ==
    IF IsList(item.loc)
    THEN _quick_scrub(Flatten([n \in 1..Len(item.loc.v) |->
                                  SourceText(k, item.loc.v[n]) \o <<" ">>]))
    ELSE _quick_scrub(SourceText(k, item.loc.v))

ResolvedValue(k, item, name) ==
    IF item.key = "full_addr"
    THEN FirstText(ParserApply(address_parser, EntryOf(k, item)).tokens,
                   ExternalLabel(name))
    ELSE EntryOf(k, item)

\* C16: each data row written has as many cells as the header row, and the
\* cell at each position is the value some source record resolves to for the
\* column named at that position: full_addr gives seven columns and seven
\* cells, every other key one column and one cell.
C16_RowsAlignWithHeader ==
    (Transformed /\ Output.kind = "std") =>
        \A r \in 1..Len(Output.rows) :
            /\ Len(Output.rows[r]) = Len(Output.header)
            /\ \E k \in 1..Len(SourceRecords) :
                   /\ Resolved(k).exc = "none"
                   /\ \A j \in 1..Len(Output.header) :
                          /\ Output.header[j] = ColumnName(j)
                          /\ Output.rows[r][j] =
                                 ResolvedValue(k, label_map.items[KeyOf(j)],
                                               Output.header[j])

\* a row of eight cells was written under the header of bus_name and
\* full_addr, with a name, a road and a province
C16_Witness ==
    /\ pc = "cleaned"
    /\ Keys(label_map.items) = <<"bus_name", "full_addr">>
    /\ Len(fs.clean.header) = 8
    /\ Len(fs.clean.rows) >= 1
    /\ fs.clean.rows[1][1] # <<>>
    /\ fs.clean.rows[1][4] # <<>>
    /\ fs.clean.rows[1][6] # <<>>

\* C17: the header row written holds no column name twice, also when
\* full_addr is declared in info together with a force entry for city, prov
\* or country.
C17_HeaderHasNoDuplicate ==
    \A n \in WrittenFiles :
        \A i, j \in 1..Len(fs[n].header) :
            fs[n].header[i] = fs[n].header[j] => i = j

====
